---- MODULE Spec2Model ----
(***************************************************************************)
(* A model of mpldxf/backend_dxf.py: the DXF renderer (RendererDxf) that   *)
(* turns matplotlib draw calls into LWPOLYLINE, HATCH and TEXT entities of *)
(* one ezdxf drawing, and the canvas (FigureCanvasDxf) that owns the       *)
(* renderer.                                                               *)
(*                                                                         *)
(* Conventions.  Coordinates are integers.  A point is <<x, y>>.  A colour *)
(* is a sequence of three or four channels (RGB or RGBA) or None; a        *)
(* channel is <<k, e>> and stands for the float k/ChanDen + e*1e-9, so     *)
(* that e = 1 gives a value that is not 0.0 but is within numpy's allclose *)
(* tolerance of it.  The drawing is a record whose modelspace is the       *)
(* sequence of entities in creation order; the handle of an entity is its  *)
(* position in that sequence.                                              *)
(***************************************************************************)
EXTENDS Integers, Sequences, FiniteSets, TLC

VARIABLES
    hasRenderer,    \* FigureCanvasDxf.dxf_renderer is set
    lastKey,        \* FigureCanvasDxf._lastKey, NoKey while unset
    rsize,          \* RendererDxf.width, .height, .dpi
    drawing,        \* RendererDxf.drawing / .modelspace
    docCount,       \* number of drawings created so far by ezdxf.new
    groupd,         \* RendererDxf._groupd
    call            \* the last call made: its name, arguments, locals, outcome

vars == <<hasRenderer, lastKey, rsize, drawing, docCount, groupd, call>>

\* Python's None: where a colour or a window may stand, and where a record
\* (a text object, a hatch) may stand.
None == <<>>
NoneObject == [none |-> TRUE]
NoKey == <<>>

(***************************************************************************)
(* Bounds of the model.                                                    *)
(***************************************************************************)
MaxEntities == 2
MaxDocs == 2
MaxDepth == 2

\* A value that an operator computes and then reads several times is bound
\* by a one-element set, CHOOSE r \in {e(x) : x \in {v}} : TRUE, which is
\* e(v) with v evaluated once.

\* ------------------------------------------------------------------------
\* Sequence helpers
\* ------------------------------------------------------------------------
Range(s) == {s[i] : i \in DOMAIN s}

IsPrefix(s, t) == Len(s) <= Len(t) /\ \A i \in 1..Len(s) : s[i] = t[i]

RECURSIVE Flatten(_)
Flatten(ss) == IF ss = <<>> THEN <<>> ELSE Head(ss) \o Flatten(Tail(ss))

\* ------------------------------------------------------------------------
\* dxf_colors: the palette module (not part of the sources at hand)
\* ------------------------------------------------------------------------
\* The first AutoCAD colour indices 0..7, as 0-255 RGB triples.
Palette ==
    << <<0, 0, 0>>, <<255, 0, 0>>, <<255, 255, 0>>, <<0, 255, 0>>,
       <<0, 255, 255>>, <<0, 0, 255>>, <<255, 0, 255>>, <<255, 255, 255>> >>

WHITE == 7

ChanDen == 2

\* Squared distance of the query q (channels scaled to 0-255) to palette
\* entry p, times ChanDen^2: its finite part, and the sign-bearing
\* coefficient of its first-order 1e-9 part.
DistMain(q, p) ==
    LET d(i) == q[i][1] - ChanDen * p[i] IN d(1) * d(1) + d(2) * d(2) + d(3) * d(3)

DistTiny(q, p) ==
    LET d(i) == q[i][2] * (q[i][1] - ChanDen * p[i]) IN d(1) + d(2) + d(3)

Closer(q, p1, p2) ==
    \/ DistMain(q, p1) < DistMain(q, p2)
    \/ DistMain(q, p1) = DistMain(q, p2) /\ DistTiny(q, p1) < DistTiny(q, p2)

\* Nearest palette index by Euclidean distance, ties to the lowest index.
\* q is the list of scaled channels <<255*k, e>>.
nearest_index(q) ==
    CHOOSE i \in 0..(Len(Palette) - 1) :
        \A j \in 0..(Len(Palette) - 1) :
            /\ ~Closer(q, Palette[j + 1], Palette[i + 1])
            /\ (j < i => Closer(q, Palette[i + 1], Palette[j + 1]))

\* ------------------------------------------------------------------------
\* rgb_to_dxf
\* ------------------------------------------------------------------------
\* np.allclose(np.array(rgb_val[:3]), np.zeros(3)): every channel within
\* 1e-8 of 0, which the 1e-9 part of a channel never breaks.
AllCloseToZero(rgb3) == \A i \in 1..3 : rgb3[i][1] = 0

Scaled255(rgb3) == [i \in 1..3 |-> <<255 * rgb3[i][1], rgb3[i][2]>>]

Exact255 == [i \in 1..3 |-> <<255 * ChanDen, 0>>]

rgb_to_dxf_NoBlackRemap(rgb_val) ==
    IF rgb_val = None THEN WHITE
    ELSE nearest_index(Scaled255(SubSeq(rgb_val, 1, 3)))

rgb_to_dxf(rgb_val) ==
    IF rgb_val = None THEN WHITE
    ELSE IF AllCloseToZero(SubSeq(rgb_val, 1, 3)) THEN nearest_index(Exact255)
    ELSE nearest_index(Scaled255(SubSeq(rgb_val, 1, 3)))

\* ------------------------------------------------------------------------
\* _map_align
\* ------------------------------------------------------------------------
Raised(exc) == [raised |-> exc, value |-> ""]
Returned(v) == [raised |-> "", value |-> v]

\* str.upper() on the six positional keywords
Upper(align) ==
    CASE align = "right" -> "RIGHT"
      [] align = "center" -> "CENTER"
      [] align = "left" -> "LEFT"
      [] align = "top" -> "TOP"
      [] align = "bottom" -> "BOTTOM"
      [] align = "middle" -> "MIDDLE"

_map_align_NoVertRemap(align, vert) ==
    IF align \in {"right", "center", "left", "top", "bottom", "middle"}
    THEN Returned(Upper(align))
    ELSE IF align = "baseline" THEN Returned("")
    ELSE IF align = "center_baseline" THEN Returned("MIDDLE")
    ELSE Raised("NotImplementedError")

_map_align(align, vert) ==
    LET first ==
            IF align \in {"right", "center", "left", "top", "bottom", "middle"}
            THEN Returned(Upper(align))
            ELSE IF align = "baseline" THEN Returned("")
            ELSE IF align = "center_baseline" THEN Returned("MIDDLE")
            ELSE Raised("NotImplementedError")
    IN  IF first.raised = "" /\ vert /\ first.value = "CENTER"
        THEN Returned("MIDDLE")
        ELSE first

\* ------------------------------------------------------------------------
\* The ezdxf modelspace: entity creation
\* ------------------------------------------------------------------------
add_lwpolyline(ms, points, close, color) ==
    Append(ms, [dxftype |-> "LWPOLYLINE", color |-> color, points |-> points,
                closed |-> close])

add_hatch(ms, color) ==
    Append(ms, [dxftype |-> "HATCH", color |-> color, paths |-> <<>>])

\* hatch.paths.add_polyline_path(...) on the hatch with handle h
add_polyline_path(ms, h, path_vertices, is_closed) ==
    [ms EXCEPT ![h].paths =
        Append(@, [vertices |-> path_vertices, closed |-> is_closed,
                   source |-> <<>>])]

\* hatch.associate(hpath, entities) for the last path of hatch h
associate(ms, h, handles) ==
    [ms EXCEPT ![h].paths[Len(ms[h].paths)].source = handles]

add_text_OverLast(ms, text, height, rotation, color) ==
    LET entity == [dxftype |-> "TEXT", color |-> color, text |-> text,
                   height |-> height, rotation |-> rotation,
                   insert |-> <<0, 0>>, align |-> "LEFT"]
    IN  IF ms = <<>> THEN <<entity>> ELSE [ms EXCEPT ![Len(ms)] = entity]

\* A new TEXT entity has the default placement: insert (0, 0), LEFT.
add_text(ms, text, height, rotation, color) ==
    Append(ms, [dxftype |-> "TEXT", color |-> color, text |-> text,
                height |-> height, rotation |-> rotation,
                insert |-> <<0, 0>>, align |-> "LEFT"])

set_placement(ms, h, p, align) ==
    [ms EXCEPT ![h].insert = p, ![h].align = align]

\* ------------------------------------------------------------------------
\* RendererDxf.__init__, _init_drawing, clear
\* ------------------------------------------------------------------------
\* ezdxf.new(...) with $EXTMAX set from the renderer's size; n is the
\* identity of the new drawing.
_init_drawing(n, size) ==
    [id |-> n, extmax |-> <<size[1], size[2]>>, modelspace |-> <<>>]

NoDrawing == [id |-> 0, extmax |-> <<>>, modelspace |-> <<>>]

points_to_pixels(points, dpi) == <<points * dpi, 72>>

\* ------------------------------------------------------------------------
\* draw_text
\* ------------------------------------------------------------------------
\* A string is a sequence of tokens: "$", "\\mathbf{", "}", "\\/", "U+2212"
\* (the Unicode minus) and plain characters.
ReplaceMinus(s) == [i \in DOMAIN s |-> IF s[i] = "U+2212" THEN "-" ELSE s[i]]

HasToken(s, t) == \E i \in DOMAIN s : s[i] = t

\* re.sub(r"\\mathbf\{(.*?)\}", r"\1", s): each \mathbf{ that has a later }
\* loses itself and the first such }.
RECURSIVE StripMathbf(_)
StripMathbf(s) ==
    IF s = <<>> THEN <<>>
    ELSE IF Head(s) = "\\mathbf{" /\ HasToken(Tail(s), "}")
    THEN LET rest == Tail(s)
             k == CHOOSE i \in DOMAIN rest :
                      rest[i] = "}" /\ \A j \in 1..(i - 1) : rest[j] # "}"
         IN  SubSeq(rest, 1, k - 1) \o StripMathbf(SubSeq(rest, k + 1, Len(rest)))
    ELSE <<Head(s)>> \o StripMathbf(Tail(s))

\* re.sub(r"[$]", "", .) then re.sub(r"\\/", " ", .)
StripDollar(s) == SelectSeq(s, LAMBDA t : t # "$")

SpaceSlash(s) == [i \in DOMAIN s |-> IF s[i] = "\\/" THEN " " ELSE s[i]]

stripped_text(s) == SpaceSlash(StripDollar(StripMathbf(s)))

\* Lines 408-416: the horizontal and vertical parts of the anchor key.
text_halign_AnchorForcesRight(angle, rotation_mode, ha) ==
    IF angle = 90 /\ rotation_mode = "anchor" THEN Returned("RIGHT")
    ELSE _map_align(ha, FALSE)

text_halign(angle, rotation_mode, ha) ==
    IF angle = 90
    THEN IF rotation_mode = "anchor" THEN _map_align(ha, FALSE)
         ELSE Returned("RIGHT")
    ELSE _map_align(ha, FALSE)

text_valign(va) == _map_align(va, TRUE)

\* Lines 418-421
compose_align_DropSeparator(valign, halign) ==
    IF valign # "" /\ halign # "" THEN valign \o "_" \o halign
    ELSE valign \o halign

compose_align(valign, halign) ==
    LET align == IF valign # "" THEN valign \o "_" ELSE valign
    IN  align \o halign

\* Lines 424-439
alignment_map ==
    {"TOP_LEFT", "TOP_CENTER", "TOP_RIGHT", "MIDDLE_LEFT", "MIDDLE_CENTER",
     "MIDDLE_RIGHT", "BOTTOM_LEFT", "BOTTOM_CENTER", "BOTTOM_RIGHT", "LEFT",
     "CENTER", "RIGHT"}

alignment_map_get(key) == IF key \in alignment_map THEN key ELSE "BOTTOM_LEFT"

TextCall(args, exc, h, v, key, align) ==
    [op |-> "draw_text", args |-> args, raised |-> exc, halign |-> h,
     valign |-> v, key |-> key, align |-> align]

draw_text(rgb, s, size, angle, mtext) ==
    LET args == [rgb |-> rgb, s |-> s, size |-> size, angle |-> angle,
                 mtext |-> mtext]
        ms == drawing.modelspace
    IN  IF mtext = NoneObject
        THEN /\ call' = TextCall(args, "", "", "", "", "")
             /\ UNCHANGED drawing
        ELSE
        LET pixels == points_to_pixels(size, rsize[3])
            fontsize == <<pixels[1], 2 * pixels[2]>>
            dxfcolor == rgb_to_dxf(rgb)
            s1 == ReplaceMinus(s)
        IN  IF s1 = <<>>
            THEN /\ call' = TextCall(args, "IndexError", "", "", "", "")
                 /\ UNCHANGED drawing
            ELSE
            LET content == IF s1[1] = "$" THEN stripped_text(s1) ELSE s1
                ms1 == add_text(ms, content, fontsize, angle, dxfcolor)
                h == text_halign(angle, mtext.rotation_mode, mtext.ha)
                v == text_valign(mtext.va)
            IN  IF h.raised # "" \/ v.raised # ""
                THEN /\ call' = TextCall(args, "NotImplementedError", "", "", "", "")
                     /\ drawing' = [drawing EXCEPT !.modelspace = ms1]
                ELSE
                LET key == compose_align(v.value, h.value)
                    align == alignment_map_get(key)
                    ms2 == set_placement(ms1, Len(ms1), mtext.pos, align)
                IN  /\ call' = TextCall(args, "", h.value, v.value, key, align)
                    /\ drawing' = [drawing EXCEPT !.modelspace = ms2]

\* ------------------------------------------------------------------------
\* Geometry: the external clipping primitives, on axis-parallel segments
\* ------------------------------------------------------------------------
\* np.nan and np.inf as coordinates.  A vertex the host masks out is
\* (NaN, NaN); an infinite coordinate lies beyond every window.
NaN == 1000001
Inf == 1000000

Min(a, b) == IF a <= b THEN a ELSE b
Max(a, b) == IF a >= b THEN a ELSE b

\* A window is <<x0, y0, x1, y1>> with x0 <= x1 and y0 <= y1, closed.
\* The part of the axis-parallel segment a-b inside the window: <<>> or
\* <<p, q>>, in the direction of a-b.
clip_line(a, b, w) ==
    IF a[2] = b[2]
    THEN LET lo == Max(Min(a[1], b[1]), w[1])
             hi == Min(Max(a[1], b[1]), w[3])
         IN  IF a[2] < w[2] \/ a[2] > w[4] \/ lo > hi THEN <<>>
             ELSE IF a[1] <= b[1] THEN << <<lo, a[2]>>, <<hi, a[2]>> >>
             ELSE << <<hi, a[2]>>, <<lo, a[2]>> >>
    ELSE LET lo == Max(Min(a[2], b[2]), w[2])
             hi == Min(Max(a[2], b[2]), w[4])
         IN  IF a[1] < w[1] \/ a[1] > w[3] \/ lo > hi THEN <<>>
             ELSE IF a[2] <= b[2] THEN << <<a[1], lo>>, <<a[1], hi>> >>
             ELSE << <<a[1], hi>>, <<a[1], lo>> >>

\* The maximal runs of the polyline vs inside the window, in order.  i is
\* the segment to clip next, parts the finished runs, cur the open run.
RECURSIVE ClipRuns(_, _, _, _, _)
ClipRuns(vs, w, i, parts, cur) ==
    LET done == IF cur = <<>> THEN parts ELSE Append(parts, cur)
    IN  IF i >= Len(vs) THEN done
        ELSE LET c == clip_line(vs[i], vs[i + 1], w)
             IN  IF c = <<>> THEN ClipRuns(vs, w, i + 1, done, <<>>)
                 ELSE IF cur # <<>> /\ cur[Len(cur)] = c[1]
                 THEN ClipRuns(vs, w, i + 1, parts, Append(cur, c[2]))
                 ELSE ClipRuns(vs, w, i + 1, done, c)

InWindow(p, w) == w[1] <= p[1] /\ p[1] <= w[3] /\ w[2] <= p[2] /\ p[2] <= w[4]

\* ezdxf ClippingRect2d(bottom_left, top_right).clip_polyline(vertices):
\* the parts of the clipped polyline.
ClippingRect2d_clip_polyline(w, vertices) == ClipRuns(vertices, w, 1, <<>>, <<>>)

\* shapely: Point(v).intersection(Polygon(cliprect)) and
\* LineString(vs).intersection(Polygon(cliprect)), as the list of the
\* disjoint components of the result, each a list of coordinates.
Point_intersection(v, w) == IF InWindow(v, w) THEN << <<v>> >> ELSE <<>>

LineString_intersection(vs, w) == ClipRuns(vs, w, 1, <<>>, <<>>)

IsNaNVertex(v) == v[1] = NaN \/ v[2] = NaN
IsFiniteVertex(v) == v[1] \notin {NaN, Inf} /\ v[2] \notin {NaN, Inf}

\* ------------------------------------------------------------------------
\* _clip_mpl
\* ------------------------------------------------------------------------
\* A vertex container is [kind, v]: kind "points" when v is one list of
\* points (v[0][0] is a float), "parts" when v is a list of such lists.
Points(v) == [kind |-> "points", v |-> v]
Parts(v) == [kind |-> "parts", v |-> v]

\* Line 141
strip_nans_AllNonFinite(vertices) == SelectSeq(vertices, IsFiniteVertex)

strip_nans(vertices) == SelectSeq(vertices, LAMBDA v : ~IsNaNVertex(v))

\* Lines 155-166, for the components of the intersection
line2d_vertices(components) ==
    IF components = <<>> THEN Points(<<>>)
    ELSE IF Len(components) > 1 THEN Parts(components)
    ELSE Points(components[1])

\* Lines 143-153: the geometry of the remaining vertices intersected with
\* the window; raises says that the library raised, which the bare except
\* turns into the empty polygon.
line2d_intersection(stripped, w, raises) ==
    IF raises THEN <<>>
    ELSE IF Len(stripped) = 1 THEN Point_intersection(stripped[1], w)
    ELSE LineString_intersection(stripped, w)

\* The library decides what a coordinate that is infinite does to the
\* intersection: it raises, or it clips.
MayRaise(bbox, vertices, obj) ==
    IF /\ bbox # None
       /\ obj = "line2d"
       /\ \E i \in DOMAIN vertices :
              ~IsNaNVertex(vertices[i]) /\ ~IsFiniteVertex(vertices[i])
    THEN {FALSE, TRUE}
    ELSE {FALSE}

_clip_mpl(bbox, vertices, obj, raises) ==
    IF bbox = None THEN Points(vertices)
    ELSE IF obj = "patch" THEN Parts(ClippingRect2d_clip_polyline(bbox, vertices))
    ELSE IF obj = "line2d"
    THEN line2d_vertices(line2d_intersection(strip_nans(vertices), bbox, raises))
    ELSE Points(vertices)

\* ------------------------------------------------------------------------
\* _draw_mpl_lwpoly
\* ------------------------------------------------------------------------
_get_polyline_attribs(gc) == rgb_to_dxf(gc.rgb)

\* The entity value the method returns: None, one entity or a list.
NoEntity == [kind |-> "None", handles |-> <<>>]
OneEntity(h) == [kind |-> "one", handles |-> <<h>>]
EntityList(hs) == [kind |-> "list", handles |-> hs]

RECURSIVE AddPolylines(_, _, _)
AddPolylines(ms, parts, color) ==
    IF parts = <<>> THEN ms
    ELSE AddPolylines(add_lwpolyline(ms, Head(parts), FALSE, color), Tail(parts), color)

\* What the emission comes to: the modelspace and the entity value.  (The
\* field clipped is for the caller to fill.)
Emitted(ms, entity) == [ms |-> ms, entity |-> entity, clipped |-> <<>>]

\* Lines 184-203, for the clipped vertex container
emit_polylines(ms, clipped, color) ==
    IF Len(clipped.v) = 0 THEN Emitted(ms, NoEntity)
    ELSE IF clipped.kind = "points"
    THEN IF clipped.v[1][1] # 0
         THEN Emitted(add_lwpolyline(ms, clipped.v, FALSE, color), OneEntity(Len(ms) + 1))
         ELSE Emitted(ms, NoEntity)
    ELSE Emitted(AddPolylines(ms, clipped.v, color),
                 EntityList([i \in 1..Len(clipped.v) |-> Len(ms) + i]))

\* vertices are the path's vertices after the transform.
_draw_mpl_lwpoly(ms, gc, vertices, obj, raises) ==
    LET dxfattribs == _get_polyline_attribs(gc)
    IN  IF Len(vertices) > 0
        THEN CHOOSE r \in
                 {[ms |-> out.ms, entity |-> out.entity, clipped |-> out.clipped] :
                     out \in {[emit_polylines(ms, clipped, dxfattribs)
                                 EXCEPT !.clipped = clipped] :
                                 clipped \in {_clip_mpl(gc.clip, vertices, obj, raises)}}} :
                 TRUE
        ELSE [ms |-> ms, entity |-> NoEntity, clipped |-> Points(<<>>)]

\* ------------------------------------------------------------------------
\* _draw_mpl_hatch
\* ------------------------------------------------------------------------
\* path.get_extents(transform): the bounding box of the vertices
Extents(vertices) ==
    LET xs == {vertices[i][1] : i \in DOMAIN vertices}
        ys == {vertices[i][2] : i \in DOMAIN vertices}
        lo(S) == CHOOSE m \in S : \A n \in S : m <= n
        hi(S) == CHOOSE m \in S : \A n \in S : m >= n
    IN  <<lo(xs), lo(ys), hi(xs), hi(ys)>>

\* math.ceil(a / b) for b > 0
CeilDiv(a, b) == -((-a) \div b)

\* Line 256
tile_count_Floor(d, dpi) == (d \div dpi) - 1

tile_count(d, dpi) == CeilDiv(d, dpi) - 1

\* range(lo, hi) as a sequence
PyRange(lo, hi) == [k \in 1..Max(0, hi - lo) |-> lo + k - 1]

\* Lines 274-275: the offsets <<irow, icol>> in the order the loops take them
tile_offsets(rows, cols) ==
    LET rs == PyRange(-rows, rows + 1)
        cs == PyRange(-cols, cols + 1)
    IN  Flatten([i \in DOMAIN rs |-> [j \in DOMAIN cs |-> <<rs[i], cs[j]>>]])

\* The model's inputs keep n even, so that 0.5 * n is an integer.
Half(n) == n \div 2

\* A hatch cell is a list of pieces in the unit square, in half units: the
\* point <<u, v>> is (u/2, v/2).  Lines 267-282: the piece in the cell
\* centred on (cx, cy), scaled by dpi and moved by the tile's offset; cx2
\* and cy2 are 2*cx and 2*cy.
place_piece(piece, cx2, cy2, dpi, offset) ==
    [i \in DOMAIN piece |->
        << Half(cx2 + (piece[i][1] - 1) * dpi) + offset[2] * dpi,
           Half(cy2 + (piece[i][2] - 1) * dpi) + offset[1] * dpi >>]

IsRectangle(pts) ==
    LET e == Extents(pts)
    IN  /\ e[1] < e[3] /\ e[2] < e[4]
        /\ Range(pts) = {<<e[1], e[2]>>, <<e[3], e[2]>>, <<e[3], e[4]>>, <<e[1], e[4]>>}

\* shapely: LineString(vertices).intersection(Polygon(boundary)).coords.
\* Polygon(...) of fewer than three coordinates raises ValueError; the
\* boundaries modelled beyond that are the axis-parallel rectangles.
hatch_line_clip(boundary, vertices) ==
    CASE Len(boundary) < 3 -> Raised("ValueError")
      [] Len(boundary) >= 3 /\ IsRectangle(boundary) ->
            LET c == clip_line(vertices[1], vertices[2], Extents(boundary))
            IN  Returned(IF c # <<>> /\ c[1] = c[2] THEN <<c[1]>> ELSE c)

\* Lines 285-300 for one piece: the value of clipped after the loop over
\* pline, or the exception that ends the call.  Iterating a single
\* LWPOLYLINE yields its points, which have no vertices(); ClippingRect2d
\* (...) is no sequence, so len() of it raises.
RECURSIVE ClipOverPline(_, _, _, _)
ClipOverPline(ms, handles, vertices, last) ==
    IF handles = <<>> THEN last
    ELSE IF Len(vertices) = 2
    THEN LET r == hatch_line_clip(ms[Head(handles)].points, vertices)
         IN  IF r.raised # "" THEN r
             ELSE ClipOverPline(ms, Tail(handles), vertices, r)
    ELSE Raised("TypeError")

clip_piece(ms, pline, vertices) ==
    IF pline.kind = "one" THEN Raised("AttributeError")
    ELSE ClipOverPline(ms, pline.handles, vertices, Returned(<<>>))

\* Lines 284-312 for the pieces of one tile
RECURSIVE HatchPieces(_, _, _, _)
HatchPieces(ms, pieces, pline, dxfcolor) ==
    IF pieces = <<>> THEN [ms |-> ms, raised |-> ""]
    ELSE CHOOSE r \in
             {IF clipped.raised # "" THEN [ms |-> ms, raised |-> clipped.raised]
              ELSE IF Len(clipped.value) > 0
              THEN HatchPieces(add_lwpolyline(ms, clipped.value, FALSE, dxfcolor),
                               Tail(pieces), pline, dxfcolor)
              ELSE HatchPieces(ms, Tail(pieces), pline, dxfcolor) :
                 clipped \in {clip_piece(ms, pline, Head(pieces))}} :
             TRUE

\* Lines 274-312: the loop bodies of the tiles lo..hi of the enumeration, in
\* order, the right half only when the left half completed; last is the
\* index of the last tile whose body was entered.
RECURSIVE HatchTiles(_, _, _, _, _, _, _)
HatchTiles(ms, offsets, lo, hi, cell, centre, env) ==
    IF lo > hi THEN [ms |-> ms, raised |-> "", last |-> hi]
    ELSE IF lo = hi
    THEN LET pieces == [i \in DOMAIN cell |->
                           place_piece(cell[i], centre[1], centre[2], env.dpi, offsets[lo])]
         IN  CHOOSE r \in
                 {[ms |-> out.ms, raised |-> out.raised, last |-> lo] :
                     out \in {HatchPieces(ms, pieces, env.pline, env.dxfcolor)}} :
                 TRUE
    ELSE CHOOSE r \in
             {IF left.raised # "" THEN left
              ELSE HatchTiles(left.ms, offsets, ((lo + hi) \div 2) + 1, hi,
                              cell, centre, env) :
                 left \in {HatchTiles(ms, offsets, lo, (lo + hi) \div 2,
                                      cell, centre, env)}} :
             TRUE

NoTiles == [hatched |-> FALSE, rows |-> 0, cols |-> 0, visited |-> <<>>]

_draw_mpl_hatch(ms, gc, vertices, dpi, pline) ==
    IF gc.hatch = NoneObject THEN [ms |-> ms, raised |-> "", tiles |-> NoTiles]
    ELSE LET ext == Extents(vertices)
             dx == ext[3] - ext[1]
             dy == ext[4] - ext[2]
             rows == tile_count(dy, dpi)
             cols == tile_count(dx, dpi)
             env == [dpi |-> dpi, pline |-> pline,
                     dxfcolor |-> rgb_to_dxf(gc.hatch_color)]
         IN  CHOOSE r \in
                 {[ms |-> out.ms, raised |-> out.raised,
                   tiles |-> [hatched |-> TRUE, rows |-> rows, cols |-> cols,
                              visited |-> SubSeq(tile_offsets(rows, cols), 1, out.last)]] :
                     out \in {HatchTiles(ms, offsets, 1, Len(offsets),
                                         gc.hatch.pieces,
                                         <<ext[3] + ext[1], ext[4] + ext[2]>>, env) :
                                 offsets \in {tile_offsets(rows, cols)}}} :
                 TRUE

\* ------------------------------------------------------------------------
\* _draw_mpl_patch, _draw_mpl_line2d
\* ------------------------------------------------------------------------
\* pol.get_points(format="xyb"): x, y and the bulge, which is 0
get_points_xyb(entity) == [i \in DOMAIN entity.points |->
                              <<entity.points[i][1], entity.points[i][2], 0>>]

\* Lines 218-227 / 229-238 for one polyline
fill_hatch_Unassociated(ms, pol, rgbFace) ==
    LET ms1 == add_hatch(ms, rgb_to_dxf(rgbFace))
    IN  add_polyline_path(ms1, Len(ms1), get_points_xyb(ms[pol]), ms[pol].closed)

fill_hatch(ms, pol, rgbFace) ==
    LET ms1 == add_hatch(ms, rgb_to_dxf(rgbFace))
        ms2 == add_polyline_path(ms1, Len(ms1), get_points_xyb(ms[pol]), ms[pol].closed)
    IN  associate(ms2, Len(ms1), <<pol>>)

RECURSIVE FillHatches(_, _, _)
FillHatches(ms, pols, rgbFace) ==
    IF pols = <<>> THEN ms
    ELSE FillHatches(fill_hatch(ms, Head(pols), rgbFace), Tail(pols), rgbFace)

\* Lines 215-238
fill_patch(ms, poly, rgbFace) ==
    IF rgbFace # None THEN FillHatches(ms, poly.handles, rgbFace) ELSE ms

\* The outcome of a path pipeline: the modelspace, the exception that ended
\* it ("" for none) and the locals the properties read.
_draw_mpl_patch(ms, gc, vertices, rgbFace, dpi) ==
    CHOOSE r \in
        {IF lw.entity.kind = "None"
         THEN [ms |-> lw.ms, raised |-> "", obj |-> "patch", clipped |-> lw.clipped,
               poly |-> lw.entity, tiles |-> NoTiles]
         ELSE CHOOSE q \in
                  {[ms |-> h.ms, raised |-> h.raised, obj |-> "patch",
                    clipped |-> lw.clipped, poly |-> lw.entity, tiles |-> h.tiles] :
                      h \in {_draw_mpl_hatch(ms1, gc, vertices, dpi, lw.entity) :
                                 ms1 \in {fill_patch(lw.ms, lw.entity, rgbFace)}}} :
                  TRUE :
            lw \in {_draw_mpl_lwpoly(ms, gc, vertices, "patch", FALSE)}} :
        TRUE

_draw_mpl_line2d(ms, gc, vertices, raises) ==
    CHOOSE r \in
        {[ms |-> lw.ms, raised |-> "", obj |-> "line2d", clipped |-> lw.clipped,
          poly |-> lw.entity, tiles |-> NoTiles] :
            lw \in {_draw_mpl_lwpoly(ms, gc, vertices, "line2d", raises)}} :
        TRUE

\* ------------------------------------------------------------------------
\* draw_path, draw_path_collection, draw_markers, draw_image, groups
\* ------------------------------------------------------------------------
\* One run of a path pipeline inside a call: what it was given, the length
\* of the modelspace before and after, and its locals.
RunOf(base, gc, vertices, rgbFace, out) ==
    [obj |-> out.obj, gc |-> gc, vertices |-> vertices, rgbFace |-> rgbFace,
     base |-> base, after |-> Len(out.ms), raised |-> out.raised,
     clipped |-> out.clipped, poly |-> out.poly, tiles |-> out.tiles]

PathCall(op, args, exc, runs) ==
    [op |-> op, args |-> args, raised |-> exc, runs |-> runs]

SetModelspace(ms) == drawing' = [drawing EXCEPT !.modelspace = ms]

draw_path(gc, vertices, rgbFace, raises) ==
    LET args == [gc |-> gc, vertices |-> vertices, rgbFace |-> rgbFace]
        ms == drawing.modelspace
    IN  IF groupd = <<>>
        THEN /\ call' = PathCall("draw_path", args, "IndexError", <<>>)
             /\ UNCHANGED drawing
        ELSE IF groupd[Len(groupd)] = "patch"
        THEN \E out \in {_draw_mpl_patch(ms, gc, vertices, rgbFace, rsize[3])} :
                 /\ call' = PathCall("draw_path", args, out.raised,
                                     <<RunOf(Len(ms), gc, vertices, rgbFace, out)>>)
                 /\ SetModelspace(out.ms)
        ELSE IF groupd[Len(groupd)] = "line2d"
        THEN \E out \in {_draw_mpl_line2d(ms, gc, vertices, raises)} :
                 /\ call' = PathCall("draw_path", args, out.raised,
                                     <<RunOf(Len(ms), gc, vertices, None, out)>>)
                 /\ SetModelspace(out.ms)
        ELSE /\ call' = PathCall("draw_path", args, "", <<>>)
             /\ UNCHANGED drawing

\* Lines 330-337: the paths from the first on, until one raises
RECURSIVE CollectionRuns(_, _, _, _, _, _)
CollectionRuns(ms, paths, gc, rgbFace, dpi, runs) ==
    IF paths = <<>> THEN [ms |-> ms, raised |-> "", runs |-> runs]
    ELSE CHOOSE r \in
             {LET done == Append(runs, RunOf(Len(ms), gc, Head(paths), rgbFace, out))
              IN  IF out.raised # ""
                  THEN [ms |-> out.ms, raised |-> out.raised, runs |-> done]
                  ELSE CollectionRuns(out.ms, Tail(paths), gc, rgbFace, dpi, done) :
                 out \in {_draw_mpl_patch(ms, gc, Head(paths), rgbFace, dpi)}} :
             TRUE

draw_path_collection(gc, paths, facecolors) ==
    LET args == [gc |-> gc, paths |-> paths, facecolors |-> facecolors]
        rgbFace == IF Len(facecolors) > 0 THEN facecolors[1] ELSE None
    IN  \E out \in {CollectionRuns(drawing.modelspace, paths, gc, rgbFace, rsize[3], <<>>)} :
            /\ call' = PathCall("draw_path_collection", args, out.raised, out.runs)
            /\ SetModelspace(out.ms)

\* "tick" in name, for the group names of the model
HasTick(name) == name \in {"tick", "xtick", "ytick"}

\* A coordinate moved by d: NaN stays NaN and infinity infinity.
Moved(c, d) == IF c \in {NaN, Inf} THEN c ELSE c + d

Translate(vertices, d) ==
    [i \in DOMAIN vertices |->
        <<Moved(vertices[i][1], d[1]), Moved(vertices[i][2], d[2])>>]

draw_markers(gc, marker_vertices, vertices, rgbFace, raises) ==
    LET args == [gc |-> gc, marker |-> marker_vertices, vertices |-> vertices,
                 rgbFace |-> rgbFace]
        ms == drawing.modelspace
    IN  IF Len(groupd) < 2
        THEN /\ call' = PathCall("draw_markers", args, "IndexError", <<>>)
             /\ UNCHANGED drawing
        ELSE IF groupd[Len(groupd)] = "line2d" /\ HasTick(groupd[Len(groupd) - 1])
        THEN IF vertices = <<>>
             THEN /\ call' = PathCall("draw_markers", args, "IndexError", <<>>)
                  /\ UNCHANGED drawing
             ELSE LET moved == Translate(marker_vertices, vertices[1])
                  IN  \E out \in {_draw_mpl_line2d(ms, gc, moved, raises)} :
                      /\ call' = PathCall("draw_markers", args, out.raised,
                                          <<RunOf(Len(ms), gc, moved, None, out)>>)
                      /\ SetModelspace(out.ms)
        ELSE /\ call' = PathCall("draw_markers", args, "", <<>>)
             /\ UNCHANGED drawing

draw_image ==
    /\ call' = [op |-> "draw_image", raised |-> ""]
    /\ UNCHANGED drawing

open_group(s) ==
    /\ groupd' = Append(groupd, s)
    /\ call' = [op |-> "open_group", s |-> s, raised |-> ""]

close_group_ByName(s) ==
    IF groupd = <<>>
    THEN /\ call' = [op |-> "close_group", s |-> s, raised |-> "IndexError"]
         /\ UNCHANGED groupd
    ELSE /\ groupd' = IF groupd[Len(groupd)] = s
                      THEN SubSeq(groupd, 1, Len(groupd) - 1)
                      ELSE groupd
         /\ call' = [op |-> "close_group", s |-> s, raised |-> ""]

close_group(s) ==
    IF groupd = <<>>
    THEN /\ call' = [op |-> "close_group", s |-> s, raised |-> "IndexError"]
         /\ UNCHANGED groupd
    ELSE /\ groupd' = SubSeq(groupd, 1, Len(groupd) - 1)
         /\ call' = [op |-> "close_group", s |-> s, raised |-> ""]

\* ------------------------------------------------------------------------
\* RendererDxf.clear, FigureCanvasDxf.get_dxf_renderer
\* ------------------------------------------------------------------------
\* Line 115, super(RendererDxf, self).clear(): the host's base renderer class
\* is no part of this source.  The call returns, touching none of the
\* renderer's own fields, or it raises AttributeError, as it does when the
\* base class defines no such method.
RendererBase_clear == {"", "AttributeError"}

\* exc is what the base class's clear() raised
clear(exc) ==
    IF exc # "" THEN UNCHANGED <<drawing, docCount>>
    ELSE /\ drawing' = _init_drawing(docCount + 1, rsize)
         /\ docCount' = docCount + 1

need_new_renderer(key) == IF ~hasRenderer THEN TRUE ELSE lastKey # key

GetCall(key, cleared, exc, returned) ==
    [op |-> "get_dxf_renderer", key |-> key, cleared |-> cleared, raised |-> exc,
     returned |-> returned]

\* returned is the identity of the document of the renderer handed back, 0
\* when the call raised.
get_dxf_renderer(key, cleared, exc) ==
    IF need_new_renderer(key)
    THEN /\ hasRenderer' = TRUE
         /\ rsize' = key
         /\ drawing' = _init_drawing(docCount + 1, key)
         /\ docCount' = docCount + 1
         /\ groupd' = <<>>
         /\ lastKey' = key
         /\ call' = GetCall(key, cleared, "", docCount + 1)
    ELSE IF cleared
    THEN /\ clear(exc)
         /\ UNCHANGED <<hasRenderer, rsize, groupd, lastKey>>
         /\ call' = GetCall(key, cleared, exc, IF exc = "" THEN docCount + 1 ELSE 0)
    ELSE /\ UNCHANGED <<hasRenderer, rsize, drawing, docCount, groupd, lastKey>>
         /\ call' = GetCall(key, cleared, "", drawing.id)

\* ------------------------------------------------------------------------
\* The inputs of the model
\* ------------------------------------------------------------------------
\* The figure's (width, height, dpi)
Keys == {<<600, 400, 100>>, <<300, 200, 50>>}

Ch(k) == <<k, 0>>
Tiny == <<0, 1>>
BLACK == <<Ch(0), Ch(0), Ch(0)>>
RED == <<Ch(ChanDen), Ch(0), Ch(0)>>
BLUE_A == <<Ch(0), Ch(0), Ch(ChanDen), Ch(1)>>
PUREWHITE == <<Ch(ChanDen), Ch(ChanDen), Ch(ChanDen)>>

Channels == {<<k, e>> : k \in 0..ChanDen, e \in {0, 1}}

\* Every RGB colour of the channel grid, some RGBA ones, and None
Colours ==
    {<<r, g, b>> : r \in Channels, g \in Channels, b \in Channels}
    \cup {<<r, r, b, a>> : r \in {Ch(0), Tiny}, b \in {Ch(0), Ch(ChanDen)}, a \in {Ch(0), Ch(1)}}
    \cup {None}

GC(rgb, clip, hatch, hatch_color) ==
    [rgb |-> rgb, clip |-> clip, hatch |-> hatch, hatch_color |-> hatch_color]

\* Windows.  WExample holds the square (0,0)-(10,10); the others have their
\* sides off the grid of the path vertices.
WExample == <<0, 0, 20, 20>>
WAll == <<-5, -5, 35, 15>>
WCut == <<5, -5, 25, 15>>
WFar == <<35, 35, 45, 45>>

Square == << <<0, 0>>, <<10, 0>>, <<10, 10>>, <<0, 10>> >>
SquareClosed == Square \o << <<0, 0>> >>
Shifted == << <<10, 0>>, <<20, 0>>, <<20, 10>>, <<10, 10>>, <<10, 0>> >>
Wide == << <<0, 0>>, <<30, 0>>, <<30, 10>>, <<0, 10>>, <<0, 0>> >>

PatchPaths == {<<>>, Square, SquareClosed, Shifted, Wide}
PatchWindows == {None, WExample, WCut, WFar}

LineFromZero == << <<0, 10>>, <<10, 10>> >>
LineInside == << <<10, 0>>, <<10, 10>>, <<20, 10>> >>
LineZigzag == << <<10, 0>>, <<10, 20>>, <<20, 20>>, <<20, 0>> >>
LineGap == << <<10, 0>>, <<NaN, NaN>>, <<10, 10>> >>
LineHalfNaN == << <<10, 0>>, <<10, NaN>>, <<20, 0>> >>
LineAllNaN == << <<NaN, NaN>>, <<NaN, 10>> >>
LinePoint == << <<10, 10>> >>
LinePointNaN == << <<NaN, NaN>>, <<20, 10>> >>
LineToInf == << <<10, 10>>, <<Inf, 10>> >>
LineGapZigzag == << <<10, 0>>, <<NaN, NaN>>, <<10, 20>>, <<20, 20>>, <<20, 0>> >>

LinePaths ==
    {<<>>, LineFromZero, LineInside, LineZigzag, LineGap, LineHalfNaN, LineAllNaN,
     LinePoint, LinePointNaN, LineToInf, LineGapZigzag}
LineWindows == {None, WAll, WCut, WFar}

Draw(gc, vertices, rgbFace) == [gc |-> gc, vertices |-> vertices, rgbFace |-> rgbFace]

PatchDraws ==
    {Draw(GC(rgb, w, NoneObject, None), vs, face) :
        rgb \in {BLACK, RED}, w \in PatchWindows, vs \in PatchPaths,
        face \in {None, RED}}

LineDraws ==
    {Draw(GC(rgb, w, NoneObject, None), vs, None) :
        rgb \in {BLACK, RED}, w \in LineWindows, vs \in LinePaths}

\* The hatch cells: a horizontal line through the centre, that line and a
\* vertical one, a triangle, and the empty cell.
HLine == << <<0, 1>>, <<2, 1>> >>
VLine == << <<1, 0>>, <<1, 2>> >>
Triangle == << <<0, 0>>, <<2, 0>>, <<1, 2>> >>
Cell(pieces) == [pieces |-> pieces]
HatchCells == {Cell(<<HLine>>), Cell(<<HLine, VLine>>), Cell(<<Triangle>>), Cell(<<>>)}

\* Boxes of width w and height h, from (x, 0); one of no width or no height
\* is a segment.
Box(x, w, h) ==
    IF w = 0 THEN << <<x, 0>>, <<x, h>> >>
    ELSE IF h = 0 THEN << <<x, 0>>, <<x + w, 0>> >>
    ELSE << <<x, 0>>, <<x + w, 0>>, <<x + w, h>>, <<x, h>>, <<x, 0>> >>

BoxWidths == {0, 100, 150, 300}
BoxHeights == {0, 100, 150}
HatchWindows == {None, <<-50, -50, 450, 250>>, <<50, -50, 450, 250>>}

HatchDraws ==
    {Draw(GC(BLACK, win, cell, RED), Box(x, w, h), face) :
        win \in HatchWindows, cell \in HatchCells, x \in {0, 100},
        w \in BoxWidths, h \in BoxHeights, face \in {None}}
    \ {Draw(GC(BLACK, win, cell, RED), Box(x, 0, 0), None) :
        win \in HatchWindows, cell \in HatchCells, x \in {0, 100}}

\* The host's text objects
MText(ha, va, rotation_mode, pos) ==
    [ha |-> ha, va |-> va, rotation_mode |-> rotation_mode, pos |-> pos]

Strings ==
    {<<>>, <<"a", "U+2212", "1">>, <<"$", "\\mathbf{", "5", "}", "\\/", "x", "$">>}

TextCallArgs(rgb, s, angle, mtext) ==
    [rgb |-> rgb, s |-> s, size |-> 12, angle |-> angle, mtext |-> mtext]

Texts ==
    {TextCallArgs(rgb, s, angle, MText(ha, va, rm, <<30, 40>>)) :
        rgb \in {BLACK}, s \in Strings, angle \in {0, 90},
        ha \in {"left", "center", "right", "baseline", "top", "justify"},
        va \in {"top", "bottom", "center", "middle", "baseline", "center_baseline",
                "left", "north"},
        rm \in {"default", "anchor"}}
    \cup {TextCallArgs(BLACK, <<"a">>, 0, NoneObject)}

GroupNames == {"patch", "line2d", "xtick"}

\* The few inputs of the specification that has every operation
FewPatchDraws ==
    {Draw(GC(BLACK, WExample, NoneObject, None), Wide, RED),
     Draw(GC(RED, None, NoneObject, None), Shifted, RED),
     Draw(GC(RED, WExample, NoneObject, None), Square, None)}

FewLineDraws == {Draw(GC(BLACK, WCut, NoneObject, None), LineZigzag, None)}

FewTexts ==
    {TextCallArgs(BLACK, <<"a">>, 90, MText("center", "top", "default", <<30, 40>>)),
     TextCallArgs(BLACK, <<"a">>, 0, MText("center", "north", "anchor", <<30, 40>>))}

\* ------------------------------------------------------------------------
\* The state machine
\* ------------------------------------------------------------------------
Init ==
    /\ hasRenderer = FALSE
    /\ lastKey = NoKey
    /\ rsize = NoKey
    /\ drawing = NoDrawing
    /\ docCount = 0
    /\ groupd = <<>>
    /\ call = [op |-> "init", raised |-> ""]

canvasVars == <<hasRenderer, lastKey, rsize, docCount>>

\* The model keeps a drawing to MaxEntities entities before a call, the
\* drawings to MaxDocs and the group stack to MaxDepth.
Room == Len(drawing.modelspace) < MaxEntities
Fresh == drawing.modelspace = <<>>
\* The first drawing call on a renderer
First == Fresh /\ call.op \in {"get_dxf_renderer", "open_group"}

GetDxfRenderer ==
    \E key \in Keys, cleared \in BOOLEAN, exc \in RendererBase_clear :
        /\ docCount < MaxDocs \/ (~need_new_renderer(key) /\ ~cleared)
        /\ get_dxf_renderer(key, cleared, exc)

Clear ==
    /\ hasRenderer
    /\ docCount < MaxDocs
    /\ \E exc \in RendererBase_clear :
          /\ clear(exc)
          /\ call' = [op |-> "clear", raised |-> exc]
    /\ UNCHANGED <<hasRenderer, lastKey, rsize, groupd>>

OpenGroup ==
    /\ hasRenderer
    /\ Len(groupd) < MaxDepth
    /\ \E s \in GroupNames : open_group(s)
    /\ UNCHANGED <<canvasVars, drawing>>

CloseGroup ==
    /\ hasRenderer
    /\ \E s \in {"patch", "line2d"} : close_group(s)
    /\ UNCHANGED <<canvasVars, drawing>>

DrawPathOver(patches, lines, room) ==
    /\ hasRenderer
    /\ room
    /\ \E d \in (IF groupd # <<>> /\ groupd[Len(groupd)] = "line2d"
                 THEN lines ELSE patches) :
          \E raises \in MayRaise(d.gc.clip, d.vertices, "line2d") :
              draw_path(d.gc, d.vertices, d.rgbFace, raises)
    /\ UNCHANGED <<canvasVars, groupd>>

DrawPathCollectionOver(patches, room) ==
    /\ hasRenderer
    /\ room
    /\ \E d1 \in patches, second \in {<<>>, <<Shifted>>} :
          draw_path_collection(d1.gc, <<d1.vertices>> \o second,
                               IF d1.rgbFace = None THEN <<>> ELSE <<d1.rgbFace, BLACK>>)
    /\ UNCHANGED <<canvasVars, groupd>>

DrawMarkersOver(lines, room) ==
    /\ hasRenderer
    /\ room
    /\ \E d \in lines, at \in {<<>>, << <<10, 0>>, <<20, 0>> >>} :
          \E raises \in MayRaise(d.gc.clip, d.vertices, "line2d") :
              draw_markers(d.gc, d.vertices, at, None, raises)
    /\ UNCHANGED <<canvasVars, groupd>>

DrawImage ==
    /\ hasRenderer
    /\ draw_image
    /\ UNCHANGED <<canvasVars, groupd>>

DrawTextOver(texts, room) ==
    /\ hasRenderer
    /\ room
    /\ \E t \in texts : draw_text(t.rgb, t.s, t.size, t.angle, t.mtext)
    /\ UNCHANGED <<canvasVars, groupd>>

\* rgb_to_dxf called on its own
RgbToDxf ==
    /\ \E rgb \in Colours :
          call' = [op |-> "rgb_to_dxf", rgb_val |-> rgb, raised |-> "",
                   returned |-> rgb_to_dxf(rgb)]
    /\ UNCHANGED <<canvasVars, drawing, groupd>>

\* Every operation, on few inputs
DrawPath == DrawPathOver(FewPatchDraws, FewLineDraws, Room)
DrawPathCollection == DrawPathCollectionOver(FewPatchDraws, Room)
DrawMarkers == DrawMarkersOver(FewLineDraws, Room)
DrawText == DrawTextOver(FewTexts, Room)

Next ==
    \/ GetDxfRenderer
    \/ Clear
    \/ OpenGroup
    \/ CloseGroup
    \/ DrawPath
    \/ DrawPathCollection
    \/ DrawMarkers
    \/ DrawImage
    \/ DrawText

Spec == Init /\ [][Next]_vars

\* The canvas: its renderer and documents, with texts to fill them
NextCanvas ==
    \/ GetDxfRenderer
    \/ Clear
    \/ DrawText
    \/ DrawImage

SpecCanvas == Init /\ [][NextCanvas]_vars

\* The state after get_dxf_renderer on a new canvas and then the open_group
\* calls of one of the given stacks: nothing drawn yet.
InitOpened(stacks) ==
    /\ hasRenderer = TRUE
    /\ \E key \in Keys :
          /\ lastKey = key
          /\ rsize = key
          /\ drawing = _init_drawing(1, key)
          /\ docCount = 1
          /\ groupd \in stacks
          /\ call = IF groupd = <<>>
                    THEN GetCall(key, FALSE, "", 1)
                    ELSE [op |-> "open_group", s |-> groupd[Len(groupd)], raised |-> ""]

\* Draw and group calls on one renderer
InitDraw == InitOpened({<<>>})

NextDraw ==
    \/ OpenGroup
    \/ CloseGroup
    \/ DrawPath
    \/ DrawPathCollection
    \/ DrawMarkers
    \/ DrawImage
    \/ DrawText

SpecDraw == InitDraw /\ [][NextDraw]_vars

\* Group, clear and draw calls on one renderer, of 100 dpi
NextGroup ==
    \/ OpenGroup
    \/ CloseGroup
    \/ Clear
    \/ DrawPath
    \/ DrawPathCollection
    \/ DrawMarkers
    \/ DrawImage
    \/ DrawText

InitGroup == InitDraw /\ rsize[3] = 100

SpecGroup == InitGroup /\ [][NextGroup]_vars

\* The path pipelines on a drawing that is still empty, on every path
PathStacks == {<<>>, <<"patch">>, <<"line2d">>, <<"xtick", "line2d">>, <<"patch", "line2d">>}
InitPath == InitOpened(PathStacks)
PathDrawPath == DrawPathOver(PatchDraws, LineDraws, First)
PathDrawMarkers == DrawMarkersOver(LineDraws, First)

NextPath ==
    \/ PathDrawPath
    \/ PathDrawMarkers

SpecPath == InitPath /\ [][NextPath]_vars

\* The hatch tiler
InitHatch == InitOpened({<<"patch">>})
HatchDrawPath == DrawPathOver(HatchDraws, {}, First)

NextHatch == HatchDrawPath

SpecHatch == InitHatch /\ [][NextHatch]_vars

\* draw_text on every text
InitText == InitOpened({<<>>, <<"text">>})
TextDrawText == DrawTextOver(Texts, First)

NextText == TextDrawText

SpecText == InitText /\ [][NextText]_vars

\* The colour quantizer
NextColour == RgbToDxf

SpecColour == Init /\ [][NextColour]_vars

\* ------------------------------------------------------------------------
\* Properties
\* ------------------------------------------------------------------------
PathOps == {"draw_path", "draw_path_collection", "draw_markers"}

\* The runs of the path pipeline in the last call
Runs == IF call.op \in PathOps THEN Range(call.runs) ELSE {}

\* The contours of a clip result
Contours(clipped) ==
    IF clipped.kind = "parts" THEN clipped.v
    ELSE IF Len(clipped.v) = 0 THEN <<>>
    ELSE <<clipped.v>>

Polyline(points, color) ==
    [dxftype |-> "LWPOLYLINE", color |-> color, points |-> points, closed |-> FALSE]

\* The polylines of run r are the entities base+1 .. base+n of the
\* modelspace, one per given contour, open, in the stroke colour.
PolylinePerContour(r, contours) ==
    /\ r.poly.handles = [k \in DOMAIN contours |-> r.base + k]
    /\ \A k \in DOMAIN contours :
          /\ r.base + k <= Len(drawing.modelspace)
          /\ drawing.modelspace[r.base + k] = Polyline(contours[k], rgb_to_dxf(r.gc.rgb))

\* C1: every path-render run whose path has a vertex appends no entity when
\* the clip result is empty and otherwise exactly one open polyline in the
\* quantized stroke colour per contour of the clip result.
C1_PolylinePerContour ==
    \A r \in Runs :
        Len(r.vertices) > 0 => PolylinePerContour(r, Contours(r.clipped))

\* C1: a run whose clip result is one contour that starts at x = 0 has
\* appended nothing.
C1_ContourFromZeroDropped ==
    \E r \in Runs :
        /\ Len(r.vertices) > 0
        /\ Len(Contours(r.clipped)) = 1
        /\ r.clipped.v[1][1] = 0
        /\ r.poly = NoEntity
        /\ r.after = r.base

\* C1: the square (0,0)-(10,10) drawn as a patch in the window (0,0)-(20,20)
\* has given exactly one polyline.
C1_SquareInWindow ==
    \E r \in Runs :
        /\ r.obj = "patch"
        /\ r.vertices = Square
        /\ r.gc.clip = WExample
        /\ Len(r.poly.handles) = 1

\* The line-mode runs with a clip window
LineRuns == {r \in Runs : r.obj = "line2d" /\ r.gc.clip # None /\ Len(r.vertices) > 0}

\* The disjoint components of the window's intersection with the geometry
\* of the vertices kept: a point when one is kept, a polyline otherwise.
Components(kept, w) ==
    IF Len(kept) = 1 THEN Point_intersection(kept[1], w)
    ELSE LineString_intersection(kept, w)

\* C5 as stated: in line mode with a window, the contours are the components
\* of the window's intersection with the vertices that have no non-finite
\* coordinate.
C5_StripsNonFinite ==
    \A r \in LineRuns :
        Contours(r.clipped) = Components(SelectSeq(r.vertices, IsFiniteVertex), r.gc.clip)

\* C5: in line mode with a window, the vertices with a NaN coordinate are
\* removed and those with an infinite one are kept; when every vertex kept is
\* finite the contours are the components of the window's intersection with
\* them, as many contours as components, and otherwise they are those or none.
C5_StripsNaN ==
    \A r \in LineRuns :
        LET kept == SelectSeq(r.vertices, LAMBDA v : ~IsNaNVertex(v))
            comps == Components(kept, r.gc.clip)
        IN  /\ r.clipped.kind = (IF Len(comps) > 1 THEN "parts" ELSE "points")
            /\ IF \A i \in DOMAIN kept : IsFiniteVertex(kept[i])
               THEN Contours(r.clipped) = comps
               ELSE Contours(r.clipped) \in {<<>>, comps}

\* C5: a line with a NaN vertex has been clipped into several contours.
C5_SeveralContours ==
    \E r \in LineRuns :
        /\ \E i \in DOMAIN r.vertices : IsNaNVertex(r.vertices[i])
        /\ Len(Contours(r.clipped)) > 1

DrawOrGroupOps ==
    PathOps \cup {"draw_text", "draw_image", "open_group", "close_group"}

\* C2: a draw or group call leaves the document the same one and every
\* entity that was in it in place with its attributes: the entity sequence
\* before the call is a prefix of the one after it.
C2_EntitiesOnlyGrow ==
    [][call'.op \in DrawOrGroupOps =>
          /\ drawing'.id = drawing.id
          /\ IsPrefix(drawing.modelspace, drawing'.modelspace)]_vars

\* C2: a path call has appended entities after entities of earlier calls.
C2_AppendedAfterEarlier ==
    \E r \in Runs : r.base > 0 /\ r.after > r.base

\* The draw_text calls that got as far as the alignment
TextCalls ==
    call.op = "draw_text" /\ call.args.mtext # NoneObject /\ call.args.s # <<>>
TextDone == TextCalls /\ call.raised = ""

\* The alignment vocabulary and its mapping
Vocabulary ==
    {"right", "center", "left", "top", "bottom", "middle", "baseline", "center_baseline"}

Mapped(align, vert) ==
    CASE align = "baseline" -> ""
      [] align = "center_baseline" -> "MIDDLE"
      [] align = "center" -> IF vert THEN "MIDDLE" ELSE "CENTER"
      [] OTHER -> Upper(align)

\* C3 as stated: the horizontal part is "RIGHT" when the angle is 90 and the
\* rotation mode is "anchor", and the mapped host alignment otherwise.
C3_AnchorForcesRight ==
    TextDone =>
        call.halign = IF call.args.angle = 90 /\ call.args.mtext.rotation_mode = "anchor"
                      THEN "RIGHT"
                      ELSE Mapped(call.args.mtext.ha, FALSE)

\* C3: the horizontal part is "RIGHT" when the angle is 90 and the rotation
\* mode is not "anchor", whatever the host's horizontal alignment, and the
\* mapped host alignment in every other case.
C3_NonAnchorForcesRight ==
    TextDone =>
        call.halign = IF call.args.angle = 90 /\ call.args.mtext.rotation_mode # "anchor"
                      THEN "RIGHT"
                      ELSE Mapped(call.args.mtext.ha, FALSE)

\* C3: a text at 90 degrees in the default rotation mode, stated left by
\* the host, has been anchored RIGHT.
C3_ForcedRight ==
    /\ TextDone
    /\ call.args.angle = 90
    /\ call.args.mtext.rotation_mode = "default"
    /\ call.args.mtext.ha = "left"
    /\ call.halign = "RIGHT"
    /\ drawing.modelspace[Len(drawing.modelspace)].align = "TOP_RIGHT"

\* The text entity of the last call carries the alignment the call resolved.
PlacedAs(align) ==
    /\ call.align = align
    /\ drawing.modelspace[Len(drawing.modelspace)].align = align
    /\ drawing.modelspace[Len(drawing.modelspace)].insert = call.args.mtext.pos

\* C4 as stated: the key is V_H, with no separator next to an empty part,
\* and a key outside the table resolves to bottom-left.
C4_NoSeparatorByEmptyPart ==
    TextDone =>
        /\ call.key = IF call.valign # "" /\ call.halign # ""
                      THEN call.valign \o "_" \o call.halign
                      ELSE call.valign \o call.halign
        /\ PlacedAs(IF call.key \in alignment_map THEN call.key ELSE "BOTTOM_LEFT")

\* C4: the key is V_H when V is non-empty, also when H is empty, and H alone
\* when V is empty; a key outside the table resolves to bottom-left.  So
\* (center, top) gives TOP_CENTER and (baseline, center_baseline) gives
\* "MIDDLE_", which resolves to bottom-left.
C4_SeparatorAfterVertical ==
    TextDone =>
        /\ call.key = IF call.valign # ""
                      THEN call.valign \o "_" \o call.halign
                      ELSE call.halign
        /\ PlacedAs(IF call.key \in alignment_map THEN call.key ELSE "BOTTOM_LEFT")
        /\ call.halign = "CENTER" /\ call.valign = "TOP" => call.key = "TOP_CENTER"
        /\ call.halign = "" /\ call.valign = "MIDDLE" =>
               call.key = "MIDDLE_" /\ call.align = "BOTTOM_LEFT"

\* C4: a text stated (baseline, center_baseline) has been placed.
C4_MiddleBaseline ==
    /\ TextDone
    /\ call.args.angle = 0
    /\ call.args.mtext.ha = "baseline"
    /\ call.args.mtext.va = "center_baseline"
    /\ call.valign = "MIDDLE"
    /\ call.halign = ""

\* The keywords a text call hands to _map_align: the vertical alignment, and
\* the horizontal one unless "RIGHT" is forced.
HandsOverHa ==
    ~(call.args.angle = 90 /\ call.args.mtext.rotation_mode # "anchor")

\* C8: a text call whose keywords are in the vocabulary resolves them by
\* the mapping, CENTER becoming MIDDLE for the vertical one; a text call
\* that hands over a keyword outside the vocabulary raises and places
\* nothing.
C8_MapAlign ==
    TextCalls =>
        IF /\ call.args.mtext.va \in Vocabulary
           /\ HandsOverHa => call.args.mtext.ha \in Vocabulary
        THEN /\ call.raised = ""
             /\ call.valign = Mapped(call.args.mtext.va, TRUE)
             /\ HandsOverHa => call.halign = Mapped(call.args.mtext.ha, FALSE)
        ELSE /\ call.raised = "NotImplementedError"
             /\ drawing.modelspace[Len(drawing.modelspace)].align = "LEFT"
             /\ drawing.modelspace[Len(drawing.modelspace)].insert = <<0, 0>>

\* C8: a text centred both ways has resolved to MIDDLE_CENTER.
C8_CentreBothWays ==
    /\ TextDone
    /\ call.args.mtext.ha = "center"
    /\ call.args.mtext.va = "center"
    /\ call.halign = "CENTER"
    /\ call.valign = "MIDDLE"
    /\ call.align = "MIDDLE_CENTER"

\* C6: the renderer's document is one of those created; get_dxf_renderer
\* hands back the renderer with a new, empty document when there was no
\* renderer, when the key differs from the last call's or when cleared is
\* set, as clear() does, and with the same document and its entities
\* otherwise.
C6_FreshOrRetained ==
    [][/\ hasRenderer' => drawing'.id \in 1..docCount'
       /\ call'.op = "get_dxf_renderer" =>
             /\ call'.raised = ""
             /\ call'.returned = drawing'.id
             /\ IF ~hasRenderer \/ lastKey # call'.key \/ call'.cleared
                THEN drawing'.modelspace = <<>> /\ drawing'.id > docCount
                ELSE drawing' = drawing
       /\ call'.op = "clear" =>
             /\ call'.raised = ""
             /\ drawing'.modelspace = <<>> /\ drawing'.id > docCount]_vars

\* C6: a reset was requested of a renderer with entities, and the call
\* raised with the document as it was.
C6_ResetRaised ==
    /\ call.op = "get_dxf_renderer"
    /\ call.cleared
    /\ call.raised = "AttributeError"
    /\ drawing.modelspace # <<>>

\* The fill hatch of polyline pol with colour rgbFace
FillHatchOf(pol, handle, rgbFace) ==
    [dxftype |-> "HATCH", color |-> rgb_to_dxf(rgbFace),
     paths |-> << [vertices |-> [i \in DOMAIN pol.points |->
                                    <<pol.points[i][1], pol.points[i][2], 0>>],
                   closed |-> pol.closed, source |-> <<handle>>] >>]

\* C7: in a patch run with a fill colour that emitted n polylines, the n
\* entities after them are the fill hatches, the k-th that of the k-th
\* polyline, and they are all of the run but for the tiles of a hatch
\* pattern; with no fill colour or no polyline the run appended no hatch.
C7_HatchPerPolyline ==
    \A r \in Runs :
        r.obj = "patch" =>
            LET ms == drawing.modelspace
                n == Len(r.poly.handles)
            IN  IF r.rgbFace # None /\ n > 0
                THEN /\ \A k \in 1..n :
                            ms[r.base + n + k] =
                                FillHatchOf(ms[r.poly.handles[k]], r.poly.handles[k],
                                            r.rgbFace)
                     /\ ~r.tiles.hatched => r.after = r.base + 2 * n
                ELSE ~r.tiles.hatched => r.after = r.base + n

\* C7: a filled patch that the window cut into several polylines, drawn
\* into a document that had entities.
C7_SeveralFilled ==
    \E r \in Runs :
        /\ r.obj = "patch"
        /\ r.rgbFace # None
        /\ r.base > 0
        /\ Len(r.poly.handles) > 1
        /\ r.after = r.base + 2 * Len(r.poly.handles)

\* The offset pairs of [-rows, rows] x [-cols, cols], row by row
Grid(rows, cols) ==
    LET R == Max(0, 2 * rows + 1)
        C == Max(0, 2 * cols + 1)
    IN  [k \in 1..(R * C) |-> <<((k - 1) \div C) - rows, ((k - 1) % C) - cols>>]

\* The hatched runs: those whose tiler ran
HatchedRuns == {r \in Runs : r.tiles.hatched}

Width(r) == Extents(r.vertices)[3] - Extents(r.vertices)[1]
Height(r) == Extents(r.vertices)[4] - Extents(r.vertices)[2]

\* rows = ceil(h / t) - 1 and cols = ceil(w / t) - 1
CeilLessOne(r) ==
    /\ r.tiles.rows * rsize[3] < Height(r) /\ Height(r) <= (r.tiles.rows + 1) * rsize[3]
    /\ r.tiles.cols * rsize[3] < Width(r) /\ Width(r) <= (r.tiles.cols + 1) * rsize[3]

\* C9 as stated: the tiler visits every offset pair of the grid, which are
\* (2 rows + 1)(2 cols + 1) tiles.
C9_VisitsWholeGrid ==
    \A r \in HatchedRuns :
        /\ CeilLessOne(r)
        /\ r.tiles.visited = Grid(r.tiles.rows, r.tiles.cols)
        /\ Len(r.tiles.visited) = (2 * r.tiles.rows + 1) * (2 * r.tiles.cols + 1)

\* C9: rows = ceil(h/t) - 1 and cols = ceil(w/t) - 1; the tiles visited are
\* the offset pairs of the grid row by row, up to the one at which the call
\* raised and all of them when it did not: (2 rows + 1)(2 cols + 1) tiles for
\* w, h > 0, and none when w = 0 or h = 0.  A 300 x 150 box with t = 100 has
\* rows = 1, cols = 2 and 15 tiles.
C9_VisitsGridPrefix ==
    \A r \in HatchedRuns :
        /\ CeilLessOne(r)
        /\ IsPrefix(r.tiles.visited, Grid(r.tiles.rows, r.tiles.cols))
        /\ r.raised = "" => r.tiles.visited = Grid(r.tiles.rows, r.tiles.cols)
        /\ r.raised = "" /\ Width(r) > 0 /\ Height(r) > 0 =>
               Len(r.tiles.visited) = (2 * r.tiles.rows + 1) * (2 * r.tiles.cols + 1)
        /\ Width(r) = 0 \/ Height(r) = 0 => r.tiles.visited = <<>>
        /\ r.raised # "" => r.tiles.visited # <<>>
        /\ Width(r) = 300 /\ Height(r) = 150 /\ rsize[3] = 100 =>
               /\ r.tiles.rows = 1 /\ r.tiles.cols = 2
               /\ r.raised = "" => Len(r.tiles.visited) = 15

\* C9: the 300 x 150 box has been tiled with t = 100 by 15 tiles that left
\* entities.
C9_FifteenTiles ==
    \E r \in HatchedRuns :
        /\ Width(r) = 300 /\ Height(r) = 150 /\ rsize[3] = 100
        /\ r.raised = ""
        /\ Len(r.tiles.visited) = 15
        /\ r.after > r.base + Len(r.poly.handles)

\* The first three channels of the colour of the last rgb_to_dxf call
Rgb3 == SubSeq(call.rgb_val, 1, 3)

\* C10 as stated: None gives the white index, pure black the index of pure
\* white, every other colour the index nearest to its scaled channels.
C10_OnlyPureBlack ==
    call.op = "rgb_to_dxf" =>
        call.returned =
            IF call.rgb_val = None THEN WHITE
            ELSE IF Rgb3 = BLACK THEN nearest_index(Scaled255(PUREWHITE))
            ELSE nearest_index(Scaled255(Rgb3))

\* C10: None gives the white index; a colour whose first three channels are
\* all within 1e-8 of 0 gives the index of pure white, which is not the one
\* nearest to black; every other colour gives the index nearest to its
\* channels scaled to 0-255.
C10_BlackWithinTolerance ==
    call.op = "rgb_to_dxf" =>
        call.returned =
            IF call.rgb_val = None THEN WHITE
            ELSE IF \A i \in 1..3 : Rgb3[i][1] = 0
            THEN nearest_index(Scaled255(PUREWHITE))
            ELSE nearest_index(Scaled255(Rgb3))

\* C10: black with an alpha channel has been given the index of white,
\* which is not the index nearest to black.
C10_BlackIsWhite ==
    /\ call.op = "rgb_to_dxf"
    /\ call.rgb_val # None
    /\ Len(call.rgb_val) = 4
    /\ Rgb3 = BLACK
    /\ call.returned = nearest_index(Scaled255(PUREWHITE))
    /\ call.returned # nearest_index(Scaled255(BLACK))

\* The stack without its top entry; popping the empty stack raises and
\* leaves it empty.
Popped(stack) == IF stack = <<>> THEN <<>> ELSE SubSeq(stack, 1, Len(stack) - 1)

\* C11: open_group appends its name to the group stack; close_group removes
\* the top entry whatever name it is passed (and raises on the empty stack);
\* clear and the draw calls leave the stack as it is, so the stack is the
\* list of the names opened and not yet closed, in nesting order.  draw_path
\* runs the patch pipeline when the top entry is "patch", the line pipeline
\* when it is "line2d", and otherwise runs none and appends no entity.
C11_GroupStack ==
    [][/\ call'.op = "open_group" => groupd' = Append(groupd, call'.s)
       /\ call'.op = "close_group" =>
             /\ groupd' = Popped(groupd)
             /\ call'.raised = (IF groupd = <<>> THEN "IndexError" ELSE "")
       /\ call'.op \in PathOps \cup {"draw_text", "draw_image", "clear"} =>
             groupd' = groupd
       /\ call'.op = "draw_path" =>
             IF groupd # <<>> /\ groupd[Len(groupd)] \in {"patch", "line2d"}
             THEN /\ Len(call'.runs) = 1
                  /\ call'.runs[1].obj = groupd[Len(groupd)]
                  /\ call'.runs[1].base = Len(drawing.modelspace)
             ELSE /\ call'.runs = <<>>
                  /\ drawing' = drawing]_vars

\* C11: with "line2d" opened inside "patch", draw_path has run the line
\* pipeline and appended its polylines.
C11_LineInsidePatch ==
    /\ groupd = <<"patch", "line2d">>
    /\ call.op = "draw_path"
    /\ Len(call.runs) = 1
    /\ call.runs[1].obj = "line2d"
    /\ call.runs[1].after > call.runs[1].base

====
